---- MODULE Spec2Model ----
(***************************************************************************)
(* Model of src/maasserver/power_policy.py: the per-node circuit breaker   *)
(* PowerOperationCircuitBreaker and the error classifier                   *)
(* classify_power_error.                                                   *)
(***************************************************************************)
EXTENDS Integers, Sequences, FiniteSets, TLC

\* ------------------------------------------------------------------ bounds
MaxThreshold == 2
MaxTimeout == 1
MaxClock == 2
MaxPieces == 2
MaxAttempt == 6

\* Largest failure count the model lets a node reach: one above the largest
\* threshold, so that a count strictly above the threshold exists.
MaxCount == MaxThreshold + 1

Nodes == {"n1", "n2"}

\* The first value of time.time(): seconds since the epoch, which is more than
\* any recovery_timeout. MaxClock is how far the clock moves on from there.
ClockStart == MaxTimeout + 1

\* The threads of the concurrent specification and the node they all work on.
Threads == {"t1", "t2"}
ConcNode == "n1"

\* class FailureType(Enum)
FailureType == {"CONFIGURATION", "TRANSIENT", "UNKNOWN"}

VARIABLES
    failure_threshold,  \* self.failure_threshold
    recovery_timeout,   \* self.recovery_timeout
    failures,           \* self._failures: node_id -> failure_count (a dict)
    last_failure,       \* self._last_failure: node_id -> timestamp (a dict)
    now,                \* the value time.time() returns
    op,                 \* the last breaker call: [name, node, ftype]
    ret,                \* what the last breaker call returned
    raised,             \* whether the last breaker call raised KeyError
    pre,                \* the count of the call's node and whether its recovery
                        \* window had passed, when the last call started
    streak              \* per node: how many non-CONFIGURATION failures were
                        \* recorded in a row since the node last had no entry
                        \* (-1: a CONFIGURATION failure came in between, or
                        \* more than failure_threshold were recorded)

\* The concurrent specification: each thread makes one call, a step at a time.
VARIABLES
    pc,                 \* per thread: the statement it is about to run
    call,               \* per thread: the call it makes, [name, ftype]
    tmp,                \* per thread: the count it read from self._failures
    cret,               \* per thread: what its call returned ("KeyError": raised)
    prior               \* the count of ConcNode before any thread started

concvars == <<pc, call, tmp, cret, prior>>

seqghosts == <<op, ret, raised, pre, streak>>

\* The classifier's specification.
VARIABLES
    exception,          \* str(exception): the text classify_power_error works on
    classified          \* the FailureType it returned ("pending": not called yet)

clsvars == <<exception, classified>>

\* No message is being classified.
NoMessage == exception = <<>> /\ classified = "pending"

\* The retry policy's specification.
VARIABLES
    policy,             \* a RetryPolicy
    attempt,            \* the attempt that failed last (0: none yet)
    delay,              \* the delay before the next attempt, in seconds
    prev_delay          \* the delay before the attempt that failed last

retryvars == <<policy, attempt, delay, prev_delay>>

\* DEFAULT_RETRY_POLICY with max_delay=timedelta(seconds=2): a faulty variant.
DefaultRetryPolicySecondsCap ==
    [max_attempts |-> 3, initial_delay |-> 10, max_delay |-> 2,
     backoff_factor |-> 2]

\* DEFAULT_RETRY_POLICY, the timedeltas in seconds.
DEFAULT_RETRY_POLICY ==
    [max_attempts |-> 3, initial_delay |-> 10, max_delay |-> 120,
     backoff_factor |-> 2]

\* No delay is being computed.
NoRetry ==
    /\ policy = DEFAULT_RETRY_POLICY
    /\ attempt = 0
    /\ delay = 0
    /\ prev_delay = 0

\* The specification with fairness.
VARIABLES
    failed_flip         \* history: flips at every record_failure of LiveNode

\* The variables of the specifications that are not about the breaker.
othervars == <<clsvars, retryvars, failed_flip>>

vars == <<failure_threshold, recovery_timeout, failures, last_failure, now,
          op, ret, raised, pre, streak, pc, call, tmp, cret, prior,
          exception, classified, policy, attempt, delay, prev_delay,
          failed_flip>>

\* ------------------------------------------------------------ dict helpers
EmptyDict == [k \in {} |-> 0]

\* k in d
HasKey(d, k) == k \in DOMAIN d

\* d.get(k, default)
DictGet(d, k, default) == IF k \in DOMAIN d THEN d[k] ELSE default

\* d[k] = v
DictSet(d, k, v) == [x \in (DOMAIN d) \cup {k} |-> IF x = k THEN v ELSE d[x]]

\* d.pop(k) with no default: removes k, raises KeyError when k is absent.
DictPopNoDefault(d, k) ==
    IF k \in DOMAIN d
    THEN [dict |-> [x \in (DOMAIN d) \ {k} |-> d[x]], raised |-> FALSE]
    ELSE [dict |-> d, raised |-> TRUE]

\* d.pop(k, None): removes k when present, never raises.
DictPop(d, k) ==
    [dict |-> [x \in (DOMAIN d) \ {k} |-> d[x]], raised |-> FALSE]

\* d.clear()
DictClear(d) == EmptyDict

\* ------------------------------------------------------------------- Init
NoOp == [name |-> "init", node |-> "none", ftype |-> "none"]

\* What the call's node looked like when the call started: its count (-1: no
\* entry), whether its recovery window had passed on the clock, and whether
\* exactly recovery_timeout had elapsed.
Snapshot(node_id) ==
    [count |-> DictGet(failures, node_id, -1),
     timed_out |-> now - DictGet(last_failure, node_id, 0) > recovery_timeout,
     at_limit |-> now - DictGet(last_failure, node_id, 0) = recovery_timeout]

\* No thread has started.
ConcIdle ==
    /\ pc = [t \in Threads |-> "idle"]
    /\ call = [t \in Threads |-> [name |-> "none", ftype |-> "none"]]
    /\ tmp = [t \in Threads |-> 0]
    /\ cret = [t \in Threads |-> "pending"]
    /\ prior = 0

Init ==
    /\ failure_threshold \in 1..MaxThreshold
    /\ recovery_timeout \in 0..MaxTimeout
    /\ failures = EmptyDict
    /\ last_failure = EmptyDict
    /\ now = ClockStart
    /\ op = NoOp
    /\ failed_flip = FALSE
    /\ ret = "None"
    /\ raised = FALSE
    /\ pre = [count |-> -1, timed_out |-> FALSE, at_limit |-> FALSE]
    /\ streak = [n \in Nodes |-> 0]
    /\ ConcIdle
    /\ NoMessage
    /\ NoRetry

\* ------------------------------------------------- the operations' results
\* A faulty variant: a CONFIGURATION failure counted like any other failure.
RecordFailureCountNoTrip(node_id, failure_type) ==
    DictSet(failures, node_id, DictGet(failures, node_id, 0) + 1)

\* record_failure: the count stored for node_id (lines 77-81).
RecordFailureCount(node_id, failure_type) ==
    IF failure_type = "CONFIGURATION"
    THEN DictSet(failures, node_id, failure_threshold)
    ELSE DictSet(failures, node_id, DictGet(failures, node_id, 0) + 1)

\* A faulty variant: the timestamp is stored with setdefault, so only the first
\* failure of a node sets it.
RecordFailureTimeFirstOnly(node_id) ==
    IF HasKey(last_failure, node_id) THEN last_failure
    ELSE DictSet(last_failure, node_id, now)

\* record_failure: the timestamp stored for node_id (line 82).
RecordFailureTime(node_id) == DictSet(last_failure, node_id, now)

\* A faulty variant: the elapsed time compared with >= instead of >.
RecoveryTimeoutReached(node_id) ==
    now - DictGet(last_failure, node_id, 0) >= recovery_timeout

\* A faulty variant: the two operands of the subtraction swapped.
RecoveryTimeoutSwapped(node_id) ==
    DictGet(last_failure, node_id, 0) - now > recovery_timeout

\* time.time() - self._last_failure.get(node_id, 0) > self.recovery_timeout
RecoveryTimeoutPassed(node_id) ==
    now - DictGet(last_failure, node_id, 0) > recovery_timeout

\* A faulty variant: the threshold compared with <= instead of <.
ShouldAllowOffByOne(node_id) ==
    IF ~HasKey(failures, node_id)
    THEN [ret |-> TRUE, failures |-> failures]
    ELSE IF failures[node_id] <= failure_threshold
    THEN [ret |-> TRUE, failures |-> failures]
    ELSE IF RecoveryTimeoutPassed(node_id)
    THEN [ret |-> TRUE, failures |-> DictSet(failures, node_id, 0)]
    ELSE [ret |-> FALSE, failures |-> failures]

\* A faulty variant: the recovery branch returns True without resetting the count.
ShouldAllowNoReset(node_id) ==
    IF ~HasKey(failures, node_id)
    THEN [ret |-> TRUE, failures |-> failures]
    ELSE IF failures[node_id] < failure_threshold
    THEN [ret |-> TRUE, failures |-> failures]
    ELSE IF RecoveryTimeoutPassed(node_id)
    THEN [ret |-> TRUE, failures |-> failures]
    ELSE [ret |-> FALSE, failures |-> failures]

\* A faulty variant: the recovery branch resets the count of every node.
ShouldAllowResetsAll(node_id) ==
    IF ~HasKey(failures, node_id)
    THEN [ret |-> TRUE, failures |-> failures]
    ELSE IF failures[node_id] < failure_threshold
    THEN [ret |-> TRUE, failures |-> failures]
    ELSE IF RecoveryTimeoutPassed(node_id)
    THEN [ret |-> TRUE, failures |-> [x \in DOMAIN failures |-> 0]]
    ELSE [ret |-> FALSE, failures |-> failures]

\* should_allow: the value returned and the dict self._failures it leaves.
ShouldAllow(node_id) ==
    IF ~HasKey(failures, node_id)
    THEN [ret |-> TRUE, failures |-> failures]
    ELSE IF failures[node_id] < failure_threshold
    THEN [ret |-> TRUE, failures |-> failures]
    ELSE IF RecoveryTimeoutPassed(node_id)
    THEN [ret |-> TRUE, failures |-> DictSet(failures, node_id, 0)]
    ELSE [ret |-> FALSE, failures |-> failures]

\* A faulty variant: HALF_OPEN reported only from the second failure on.
GetStateLateHalfOpen(node_id) ==
    LET allow == ShouldAllow(node_id) IN
    IF allow.ret
    THEN IF HasKey(allow.failures, node_id) /\ allow.failures[node_id] > 1
         THEN [ret |-> "HALF_OPEN", failures |-> allow.failures]
         ELSE [ret |-> "CLOSED", failures |-> allow.failures]
    ELSE [ret |-> "OPEN", failures |-> allow.failures]

\* A faulty variant: the state is worked out without calling should_allow, so
\* the count is never reset.
GetStatePeek(node_id) ==
    LET allow == ShouldAllow(node_id) IN
    IF allow.ret
    THEN IF HasKey(allow.failures, node_id) /\ allow.failures[node_id] > 0
         THEN [ret |-> "HALF_OPEN", failures |-> failures]
         ELSE [ret |-> "CLOSED", failures |-> failures]
    ELSE [ret |-> "OPEN", failures |-> failures]

\* A faulty variant: HALF_OPEN for every node that has an entry, whatever
\* its count.
GetStateTracked(node_id) ==
    LET allow == ShouldAllow(node_id) IN
    IF allow.ret
    THEN IF HasKey(allow.failures, node_id)
         THEN [ret |-> "HALF_OPEN", failures |-> allow.failures]
         ELSE [ret |-> "CLOSED", failures |-> allow.failures]
    ELSE [ret |-> "OPEN", failures |-> allow.failures]

\* get_state: the state name returned and the dict self._failures it leaves
\* (it calls should_allow, then reads the count should_allow left).
GetState(node_id) ==
    LET allow == ShouldAllow(node_id) IN
    IF allow.ret
    THEN IF HasKey(allow.failures, node_id) /\ allow.failures[node_id] > 0
         THEN [ret |-> "HALF_OPEN", failures |-> allow.failures]
         ELSE [ret |-> "CLOSED", failures |-> allow.failures]
    ELSE [ret |-> "OPEN", failures |-> allow.failures]

\* get_failure_count: self._failures.get(node_id, 0)
GetFailureCount(node_id) == DictGet(failures, node_id, 0)

\* A faulty variant: the count is popped and the timestamp is left behind.
PopNodeCountOnly(node_id) ==
    [failures |-> DictPop(failures, node_id).dict,
     last_failure |-> last_failure, raised |-> FALSE]

\* A faulty variant: both dicts are cleared instead of popping one node.
PopNodeAll(node_id) ==
    [failures |-> DictClear(failures),
     last_failure |-> DictClear(last_failure), raised |-> FALSE]

\* record_success and reset(node_id): both pops, the second one skipped when
\* the first raises.
PopNode(node_id) ==
    LET first == DictPop(failures, node_id) IN
    IF first.raised
    THEN [failures |-> failures, last_failure |-> last_failure, raised |-> TRUE]
    ELSE LET second == DictPop(last_failure, node_id) IN
         [failures |-> first.dict, last_failure |-> second.dict,
          raised |-> second.raised]

\* The streak of node_id after a record_failure of failure_type: counted up
\* to failure_threshold.
StreakAfterFailure(node_id, failure_type) ==
    IF failure_type = "CONFIGURATION" \/ streak[node_id] < 0 THEN -1
    ELSE IF streak[node_id] < failure_threshold THEN streak[node_id] + 1
    ELSE -1

\* ------------------------------------------------------------ the actions
Call(name, node_id, failure_type) ==
    /\ op' = [name |-> name, node |-> node_id, ftype |-> failure_type]
    /\ pre' = Snapshot(node_id)
    /\ UNCHANGED <<concvars, othervars>>

record_failure(node_id, failure_type) ==
    /\ failure_type = "CONFIGURATION" \/ DictGet(failures, node_id, 0) < MaxCount
    /\ Call("record_failure", node_id, failure_type)
    /\ failures' = RecordFailureCount(node_id, failure_type)
    /\ last_failure' = RecordFailureTime(node_id)
    /\ ret' = "None"
    /\ raised' = FALSE
    /\ streak' = [streak EXCEPT ![node_id] = StreakAfterFailure(node_id, failure_type)]
    /\ UNCHANGED <<failure_threshold, recovery_timeout, now>>

record_success(node_id) ==
    /\ Call("record_success", node_id, "none")
    /\ failures' = PopNode(node_id).failures
    /\ last_failure' = PopNode(node_id).last_failure
    /\ raised' = PopNode(node_id).raised
    /\ ret' = "None"
    /\ streak' = [streak EXCEPT ![node_id] = 0]
    /\ UNCHANGED <<failure_threshold, recovery_timeout, now>>

should_allow(node_id) ==
    /\ Call("should_allow", node_id, "none")
    /\ failures' = ShouldAllow(node_id).failures
    /\ ret' = ShouldAllow(node_id).ret
    /\ raised' = FALSE
    /\ UNCHANGED <<failure_threshold, recovery_timeout, last_failure, now, streak>>

get_state(node_id) ==
    /\ Call("get_state", node_id, "none")
    /\ failures' = GetState(node_id).failures
    /\ ret' = GetState(node_id).ret
    /\ raised' = FALSE
    /\ UNCHANGED <<failure_threshold, recovery_timeout, last_failure, now, streak>>

get_failure_count(node_id) ==
    /\ Call("get_failure_count", node_id, "none")
    /\ ret' = GetFailureCount(node_id)
    /\ raised' = FALSE
    /\ UNCHANGED <<failure_threshold, recovery_timeout, failures, last_failure,
                   now, streak>>

\* reset(node_id) with node_id is not None
reset(node_id) ==
    /\ Call("reset", node_id, "none")
    /\ failures' = PopNode(node_id).failures
    /\ last_failure' = PopNode(node_id).last_failure
    /\ raised' = PopNode(node_id).raised
    /\ ret' = "None"
    /\ streak' = [streak EXCEPT ![node_id] = 0]
    /\ UNCHANGED <<failure_threshold, recovery_timeout, now>>

\* reset() with node_id=None
reset_all ==
    /\ Call("reset_all", "none", "none")
    /\ failures' = DictClear(failures)
    /\ last_failure' = DictClear(last_failure)
    /\ ret' = "None"
    /\ raised' = FALSE
    /\ streak' = [n \in Nodes |-> 0]
    /\ UNCHANGED <<failure_threshold, recovery_timeout, now>>

\* The clock moves on between two calls.
Tick ==
    /\ now < ClockStart + MaxClock
    /\ now' = now + 1
    /\ UNCHANGED <<failure_threshold, recovery_timeout, failures, last_failure,
                   op, ret, raised, pre, streak, concvars, othervars>>

Next ==
    \/ \E n \in Nodes, t \in FailureType : record_failure(n, t)
    \/ \E n \in Nodes : record_success(n)
    \/ \E n \in Nodes : should_allow(n)
    \/ \E n \in Nodes : get_state(n)
    \/ \E n \in Nodes : get_failure_count(n)
    \/ \E n \in Nodes : reset(n)
    \/ reset_all
    \/ Tick

Spec == Init /\ [][Next]_vars

\* ------------------------------------------- the concurrent specification
\* Two threads call the breaker for the same node with no lock around the
\* calls: every read and every write of a dict is a step of its own, and the
\* other thread may run between any two of them.

\* The states one node can be left in by calls made one after the other: no
\* entry, or a count with the timestamp of its last failure; a count of 0 is
\* left only by a recovery, after the clock has passed recovery_timeout.
ConcInit ==
    /\ failure_threshold \in 1..MaxThreshold
    /\ recovery_timeout \in 0..MaxTimeout
    /\ now \in ClockStart..(ClockStart + 1)
    /\ \/ failures = EmptyDict /\ last_failure = EmptyDict
       \/ \E c \in 0..MaxThreshold :
            /\ c = 0 => now - ClockStart > recovery_timeout
            /\ failures = DictSet(EmptyDict, ConcNode, c)
            /\ last_failure = DictSet(EmptyDict, ConcNode, ClockStart)
    /\ op = NoOp
    /\ failed_flip = FALSE
    /\ ret = "None"
    /\ raised = FALSE
    /\ pre = [count |-> -1, timed_out |-> FALSE, at_limit |-> FALSE]
    /\ streak = [n \in Nodes |-> 0]
    /\ pc = [t \in Threads |-> "idle"]
    /\ call = [t \in Threads |-> [name |-> "none", ftype |-> "none"]]
    /\ tmp = [t \in Threads |-> 0]
    /\ cret = [t \in Threads |-> "pending"]
    /\ prior = DictGet(failures, ConcNode, 0)
    /\ NoMessage
    /\ NoRetry

\* Thread t moves to statement label.
Goto(t, label) == pc' = [pc EXCEPT ![t] = label]

\* Thread t returns value from its call.
Return(t, value) ==
    /\ pc' = [pc EXCEPT ![t] = "done"]
    /\ cret' = [cret EXCEPT ![t] = value]

\* Thread t enters record_failure(ConcNode, failure_type): line 77.
begin_record_failure(t, failure_type) ==
    /\ pc[t] = "idle"
    /\ call' = [call EXCEPT ![t] = [name |-> "record_failure", ftype |-> failure_type]]
    /\ Goto(t, IF failure_type = "CONFIGURATION" THEN "rf_set" ELSE "rf_get")
    /\ UNCHANGED <<failure_threshold, recovery_timeout, failures, last_failure,
                   now, seqghosts, othervars, tmp, cret, prior>>

\* Line 79: self._failures[node_id] = self.failure_threshold
rf_set(t) ==
    /\ pc[t] = "rf_set"
    /\ failures' = DictSet(failures, ConcNode, failure_threshold)
    /\ Goto(t, "rf_time")
    /\ UNCHANGED <<failure_threshold, recovery_timeout, last_failure, now,
                   seqghosts, othervars, call, tmp, cret, prior>>

\* Line 81, right-hand side: self._failures.get(node_id, 0)
rf_get(t) ==
    /\ pc[t] = "rf_get"
    /\ tmp' = [tmp EXCEPT ![t] = DictGet(failures, ConcNode, 0)]
    /\ Goto(t, "rf_store")
    /\ UNCHANGED <<failure_threshold, recovery_timeout, failures, last_failure,
                   now, seqghosts, othervars, call, cret, prior>>

\* The count rf_store writes: the count read, plus one.
StoredCount(t) == tmp[t] + 1

\* Line 81, the store: self._failures[node_id] = <the count read> + 1
rf_store(t) ==
    /\ pc[t] = "rf_store"
    /\ failures' = DictSet(failures, ConcNode, StoredCount(t))
    /\ Goto(t, "rf_time")
    /\ UNCHANGED <<failure_threshold, recovery_timeout, last_failure, now,
                   seqghosts, othervars, call, tmp, cret, prior>>

\* Line 82: self._last_failure[node_id] = time.time()
rf_time(t) ==
    /\ pc[t] = "rf_time"
    /\ last_failure' = DictSet(last_failure, ConcNode, now)
    /\ Return(t, "None")
    /\ UNCHANGED <<failure_threshold, recovery_timeout, failures, now,
                   seqghosts, othervars, call, tmp, prior>>

\* Thread t enters record_success(ConcNode).
begin_record_success(t) ==
    /\ pc[t] = "idle"
    /\ call' = [call EXCEPT ![t] = [name |-> "record_success", ftype |-> "none"]]
    /\ Goto(t, "rs_pop_count")
    /\ UNCHANGED <<failure_threshold, recovery_timeout, failures, last_failure,
                   now, seqghosts, othervars, tmp, cret, prior>>

\* Line 89: self._failures.pop(node_id, None)
rs_pop_count(t) ==
    /\ pc[t] = "rs_pop_count"
    /\ failures' = DictPop(failures, ConcNode).dict
    /\ Goto(t, "rs_pop_time")
    /\ UNCHANGED <<failure_threshold, recovery_timeout, last_failure, now,
                   seqghosts, othervars, call, tmp, cret, prior>>

\* Line 90: self._last_failure.pop(node_id, None)
rs_pop_time(t) ==
    /\ pc[t] = "rs_pop_time"
    /\ last_failure' = DictPop(last_failure, ConcNode).dict
    /\ Return(t, "None")
    /\ UNCHANGED <<failure_threshold, recovery_timeout, failures, now,
                   seqghosts, othervars, call, tmp, prior>>

\* should_allow returns value in thread t: to the caller of should_allow, or
\* into get_state, which goes on at line 115 or returns "OPEN" (line 118); a
\* KeyError passes through get_state to its caller.
SaReturn(t, value) ==
    IF call[t].name = "get_state"
    THEN IF value = "True" THEN Goto(t, "gs_test") /\ UNCHANGED cret
         ELSE IF value = "False" THEN Return(t, "OPEN")
         ELSE Return(t, value)
    ELSE Return(t, value)

\* Thread t enters should_allow(ConcNode).
begin_should_allow(t) ==
    /\ pc[t] = "idle"
    /\ call' = [call EXCEPT ![t] = [name |-> "should_allow", ftype |-> "none"]]
    /\ Goto(t, "sa_test")
    /\ UNCHANGED <<failure_threshold, recovery_timeout, failures, last_failure,
                   now, seqghosts, othervars, tmp, cret, prior>>

\* Line 98: if node_id not in self._failures: return True
sa_test(t) ==
    /\ pc[t] = "sa_test"
    /\ IF ~HasKey(failures, ConcNode)
       THEN SaReturn(t, "True")
       ELSE Goto(t, "sa_read") /\ UNCHANGED cret
    /\ UNCHANGED <<failure_threshold, recovery_timeout, failures, last_failure,
                   now, seqghosts, othervars, call, tmp, prior>>

\* Line 100: if self._failures[node_id] < self.failure_threshold: return True
\* (the subscript raises KeyError when the entry has gone since line 98).
sa_read(t) ==
    /\ pc[t] = "sa_read"
    /\ IF ~HasKey(failures, ConcNode)
       THEN SaReturn(t, "KeyError")
       ELSE IF failures[ConcNode] < failure_threshold
       THEN SaReturn(t, "True")
       ELSE Goto(t, "sa_time") /\ UNCHANGED cret
    /\ UNCHANGED <<failure_threshold, recovery_timeout, failures, last_failure,
                   now, seqghosts, othervars, call, tmp, prior>>

\* Line 103: the recovery-timeout test; line 106: return False
sa_time(t) ==
    /\ pc[t] = "sa_time"
    /\ IF RecoveryTimeoutPassed(ConcNode)
       THEN Goto(t, "sa_reset") /\ UNCHANGED cret
       ELSE SaReturn(t, "False")
    /\ UNCHANGED <<failure_threshold, recovery_timeout, failures, last_failure,
                   now, seqghosts, othervars, call, tmp, prior>>

\* Lines 104-105: self._failures[node_id] = 0; return True
sa_reset(t) ==
    /\ pc[t] = "sa_reset"
    /\ failures' = DictSet(failures, ConcNode, 0)
    /\ SaReturn(t, "True")
    /\ UNCHANGED <<failure_threshold, recovery_timeout, last_failure, now,
                   seqghosts, othervars, call, tmp, prior>>

\* Thread t enters get_state(ConcNode), which calls should_allow: line 114.
begin_get_state(t) ==
    /\ pc[t] = "idle"
    /\ call' = [call EXCEPT ![t] = [name |-> "get_state", ftype |-> "none"]]
    /\ Goto(t, "sa_test")
    /\ UNCHANGED <<failure_threshold, recovery_timeout, failures, last_failure,
                   now, seqghosts, othervars, tmp, cret, prior>>

\* Line 115, left of "and": node_id in self._failures; line 117 when it is not.
gs_test(t) ==
    /\ pc[t] = "gs_test"
    /\ IF ~HasKey(failures, ConcNode)
       THEN Return(t, "CLOSED")
       ELSE Goto(t, "gs_read") /\ UNCHANGED cret
    /\ UNCHANGED <<failure_threshold, recovery_timeout, failures, last_failure,
                   now, seqghosts, othervars, call, tmp, prior>>

\* Line 115, right of "and": self._failures[node_id] > 0 (the subscript raises
\* KeyError when the entry has gone since the test); lines 116-117.
gs_read(t) ==
    /\ pc[t] = "gs_read"
    /\ IF ~HasKey(failures, ConcNode)
       THEN Return(t, "KeyError")
       ELSE IF failures[ConcNode] > 0
       THEN Return(t, "HALF_OPEN")
       ELSE Return(t, "CLOSED")
    /\ UNCHANGED <<failure_threshold, recovery_timeout, failures, last_failure,
                   now, seqghosts, othervars, call, tmp, prior>>

\* Thread t enters reset(ConcNode): lines 134-135 are the two pops of
\* record_success.
begin_reset(t) ==
    /\ pc[t] = "idle"
    /\ call' = [call EXCEPT ![t] = [name |-> "reset", ftype |-> "none"]]
    /\ Goto(t, "rs_pop_count")
    /\ UNCHANGED <<failure_threshold, recovery_timeout, failures, last_failure,
                   now, seqghosts, othervars, tmp, cret, prior>>

\* Thread t enters reset() with node_id=None.
begin_reset_all(t) ==
    /\ pc[t] = "idle"
    /\ call' = [call EXCEPT ![t] = [name |-> "reset_all", ftype |-> "none"]]
    /\ Goto(t, "ra_clear_count")
    /\ UNCHANGED <<failure_threshold, recovery_timeout, failures, last_failure,
                   now, seqghosts, othervars, tmp, cret, prior>>

\* Line 137: self._failures.clear()
ra_clear_count(t) ==
    /\ pc[t] = "ra_clear_count"
    /\ failures' = DictClear(failures)
    /\ Goto(t, "ra_clear_time")
    /\ UNCHANGED <<failure_threshold, recovery_timeout, last_failure, now,
                   seqghosts, othervars, call, tmp, cret, prior>>

\* Line 138: self._last_failure.clear()
ra_clear_time(t) ==
    /\ pc[t] = "ra_clear_time"
    /\ last_failure' = DictClear(last_failure)
    /\ Return(t, "None")
    /\ UNCHANGED <<failure_threshold, recovery_timeout, failures, now,
                   seqghosts, othervars, call, tmp, prior>>

ConcNext ==
    \/ \E t \in Threads, f \in FailureType : begin_record_failure(t, f)
    \/ \E t \in Threads : rf_set(t)
    \/ \E t \in Threads : rf_get(t)
    \/ \E t \in Threads : rf_store(t)
    \/ \E t \in Threads : rf_time(t)
    \/ \E t \in Threads : begin_record_success(t)
    \/ \E t \in Threads : rs_pop_count(t)
    \/ \E t \in Threads : rs_pop_time(t)
    \/ \E t \in Threads : begin_should_allow(t)
    \/ \E t \in Threads : sa_test(t)
    \/ \E t \in Threads : sa_read(t)
    \/ \E t \in Threads : sa_time(t)
    \/ \E t \in Threads : sa_reset(t)
    \/ \E t \in Threads : begin_get_state(t)
    \/ \E t \in Threads : gs_test(t)
    \/ \E t \in Threads : gs_read(t)
    \/ \E t \in Threads : begin_reset(t)
    \/ \E t \in Threads : begin_reset_all(t)
    \/ \E t \in Threads : ra_clear_count(t)
    \/ \E t \in Threads : ra_clear_time(t)
    \/ Tick

SpecConc == ConcInit /\ [][ConcNext]_vars

\* ----------------------------------------------------------- the classifier
\* A message is a sequence of one-character strings.
UpperLetters ==
    <<"A", "B", "C", "D", "E", "F", "G", "H", "I", "J", "K", "L", "M",
      "N", "O", "P", "Q", "R", "S", "T", "U", "V", "W", "X", "Y", "Z">>

LowerLetters ==
    <<"a", "b", "c", "d", "e", "f", "g", "h", "i", "j", "k", "l", "m",
      "n", "o", "p", "q", "r", "s", "t", "u", "v", "w", "x", "y", "z">>

\* str.lower() on one character.
LowerChar(ch) ==
    IF \E i \in 1..Len(UpperLetters) : UpperLetters[i] = ch
    THEN LowerLetters[CHOOSE i \in 1..Len(UpperLetters) : UpperLetters[i] = ch]
    ELSE ch

\* str.lower()
StrLower(text) == [i \in 1..Len(text) |-> LowerChar(text[i])]

\* pattern in text: text has pattern as a substring.
StrContains(pattern, text) ==
    \E i \in 0..(Len(text) - Len(pattern)) :
        \A j \in 1..Len(pattern) : text[i + j] = pattern[j]

\* Configuration errors (no point retrying)
config_patterns ==
    <<
      <<"n", "o", " ", "r", "a", "c", "k", " ", "c", "o", "n", "t", "r",
        "o", "l", "l", "e", "r", "s", " ", "c", "a", "n", " ", "a", "c",
        "c", "e", "s", "s">>,
      <<"n", "o", " ", "b", "m", "c", " ", "i", "s", " ", "d", "e", "f",
        "i", "n", "e", "d">>,
      <<"u", "n", "c", "o", "n", "f", "i", "g", "u", "r", "e", "d", " ",
        "p", "o", "w", "e", "r", " ", "t", "y", "p", "e">>,
      <<"u", "n", "k", "n", "o", "w", "n", " ", "p", "o", "w", "e", "r",
        " ", "t", "y", "p", "e">>,
      <<"p", "o", "w", "e", "r", " ", "t", "y", "p", "e", " ", "n", "o",
        "t", " ", "s", "e", "t">>,
      <<"n", "o", " ", "p", "o", "w", "e", "r", " ", "t", "y", "p", "e">>,
      <<"b", "m", "c", " ", "i", "s", " ", "n", "o", "t", " ", "a", "c",
        "c", "e", "s", "s", "i", "b", "l", "e">>,
      <<"c", "a", "n", "n", "o", "t", " ", "s", "t", "a", "r", "t", " ",
        "c", "o", "m", "m", "i", "s", "s", "i", "o", "n", "i", "n", "g">>
    >>

\* Transient errors (worth retrying)
transient_patterns ==
    <<
      <<"t", "i", "m", "e", "o", "u", "t">>,
      <<"c", "o", "n", "n", "e", "c", "t", "i", "o", "n", " ", "r", "e",
        "f", "u", "s", "e", "d">>,
      <<"c", "o", "n", "n", "e", "c", "t", "i", "o", "n", " ", "r", "e",
        "s", "e", "t">>,
      <<"n", "e", "t", "w", "o", "r", "k", " ", "u", "n", "r", "e", "a",
        "c", "h", "a", "b", "l", "e">>,
      <<"h", "o", "s", "t", " ", "u", "n", "r", "e", "a", "c", "h", "a",
        "b", "l", "e">>,
      <<"t", "e", "m", "p", "o", "r", "a", "r", "y", " ", "f", "a", "i",
        "l", "u", "r", "e">>,
      <<"t", "r", "y", " ", "a", "g", "a", "i", "n">>,
      <<"t", "e", "m", "p", "o", "r", "a", "r", "i", "l", "y", " ", "u",
        "n", "a", "v", "a", "i", "l", "a", "b", "l", "e">>
    >>

\* for pattern in patterns: if pattern in text: return ...
\* TRUE when the loop returns at one of patterns[i..], FALSE when it runs out.
RECURSIVE LoopReturns(_, _, _)
LoopReturns(patterns, i, text) ==
    IF i > Len(patterns) THEN FALSE
    ELSE IF StrContains(patterns[i], text) THEN TRUE
    ELSE LoopReturns(patterns, i + 1, text)

\* A faulty variant: the transient patterns are tried before the configuration ones.
ClassifyTransientFirst(message) ==
    LET error_msg == StrLower(message) IN
    IF LoopReturns(transient_patterns, 1, error_msg) THEN "TRANSIENT"
    ELSE IF LoopReturns(config_patterns, 1, error_msg) THEN "CONFIGURATION"
    ELSE "UNKNOWN"

\* classify_power_error, on str(exception)
classify_power_error(message) ==
    LET error_msg == StrLower(message) IN
    IF LoopReturns(config_patterns, 1, error_msg) THEN "CONFIGURATION"
    ELSE IF LoopReturns(transient_patterns, 1, error_msg) THEN "TRANSIENT"
    ELSE "UNKNOWN"

\* The pieces the messages of the model are put together from: every pattern
\* as it is written, some in other letter cases, and text that is no pattern
\* (two pieces put side by side may form one: "time" and "out").
OtherPieces ==
    <<
      <<"C", "o", "n", "n", "e", "c", "t", "i", "o", "n", " ", "R", "e",
        "f", "u", "s", "e", "d">>,
      <<"U", "N", "K", "N", "O", "W", "N", " ", "P", "O", "W", "E", "R",
        " ", "T", "Y", "P", "E">>,
      <<"T", "i", "m", "e", "O", "u", "t">>,
      <<" ", "b", "y", " ", "h", "o", "s", "t">>,
      <<":", " ">>,
      <<"d", "i", "s", "k", " ", "f", "u", "l", "l">>,
      <<"t", "i", "m", "e">>,
      <<"o", "u", "t">>,
      <<"n", "o", " ", "p", "o", "w", "e", "r">>,
      <<" ", "t", "y", "p", "e">>
    >>

Range(seq) == {seq[i] : i \in 1..Len(seq)}

Pieces == Range(config_patterns) \cup Range(transient_patterns) \cup Range(OtherPieces)

RECURSIVE Join(_)
Join(pieces) == IF pieces = <<>> THEN <<>> ELSE Head(pieces) \o Join(Tail(pieces))

\* The messages of up to MaxPieces pieces.
Messages ==
    {Join(ps) : ps \in UNION {[1..k -> Pieces] : k \in 1..MaxPieces}}

\* A call of classify_power_error is about to be made on a message.
ClassifyInit ==
    /\ exception \in Messages
    /\ classified = "pending"
    /\ failure_threshold = 1
    /\ recovery_timeout = 0
    /\ failures = EmptyDict
    /\ last_failure = EmptyDict
    /\ now = ClockStart
    /\ op = NoOp
    /\ failed_flip = FALSE
    /\ ret = "None"
    /\ raised = FALSE
    /\ pre = [count |-> -1, timed_out |-> FALSE, at_limit |-> FALSE]
    /\ streak = [n \in Nodes |-> 0]
    /\ ConcIdle
    /\ NoRetry

classify ==
    /\ classified = "pending"
    /\ classified' = classify_power_error(exception)
    /\ UNCHANGED <<failure_threshold, recovery_timeout, failures, last_failure,
                   now, seqghosts, concvars, exception, retryvars,
                   failed_flip>>

ClassifyNext == classify

SpecClassify == ClassifyInit /\ [][ClassifyNext]_vars

\* ----------------------------------------------------------- the retry policy
RECURSIVE Power(_, _)
Power(base, exponent) ==
    IF exponent = 0 THEN 1 ELSE base * Power(base, exponent - 1)

Min(a, b) == IF a <= b THEN a ELSE b

\* RetryPolicy.delay(attempt): min(initial_delay * backoff_factor^(attempt-1),
\* max_delay). The dataclass of the source holds the four fields only.
Delay(p, n) ==
    Min(p.initial_delay * Power(p.backoff_factor, n - 1), p.max_delay)

\* The policies of the model: the default one, and those with
\* initial_delay >= 0, max_delay >= initial_delay and backoff_factor >= 1
\* drawn from a few values.
Policies ==
    {DEFAULT_RETRY_POLICY} \cup
    {p \in [max_attempts : {3}, initial_delay : {0, 1, 10},
            max_delay : {1, 10, 25, 120}, backoff_factor : {1, 2, 3}] :
        p.max_delay >= p.initial_delay}

RetryInit ==
    /\ policy \in Policies
    /\ attempt = 0
    /\ delay = 0
    /\ prev_delay = 0
    /\ failure_threshold = 1
    /\ recovery_timeout = 0
    /\ failures = EmptyDict
    /\ last_failure = EmptyDict
    /\ now = ClockStart
    /\ op = NoOp
    /\ failed_flip = FALSE
    /\ ret = "None"
    /\ raised = FALSE
    /\ pre = [count |-> -1, timed_out |-> FALSE, at_limit |-> FALSE]
    /\ streak = [n \in Nodes |-> 0]
    /\ ConcIdle
    /\ NoMessage

\* One more attempt has failed: the delay before the next one is computed.
next_delay ==
    /\ attempt < MaxAttempt
    /\ attempt' = attempt + 1
    /\ delay' = Delay(policy, attempt + 1)
    /\ prev_delay' = delay
    /\ UNCHANGED <<failure_threshold, recovery_timeout, failures, last_failure,
                   now, seqghosts, concvars, clsvars, policy,
                   failed_flip>>

RetryNext == next_delay

SpecRetry == RetryInit /\ [][RetryNext]_vars

\* =================================== two breakers taking the same calls
\* Two breakers with the same failure_threshold, recovery_timeout and clock
\* are the two node entries of one breaker (no per-node method reads or
\* writes another node's entries): for EntryNode the dicts start with a
\* count of 0 and an old timestamp, as a timeout recovery (line 104) leaves
\* them; for AbsentNode they start with no entry. Every call is made on
\* EntryNode and then, with the same arguments, on AbsentNode.
EntryNode == "n1"

AbsentNode == "n2"

\* The timestamps a timeout recovery can have left behind at ClockStart.
RecoveredStamps == {t \in 0..ClockStart : ClockStart - t > recovery_timeout}

\* Both nodes have taken the same calls.
InStep == op.node # EntryNode

PairInit ==
    /\ failure_threshold \in 1..MaxThreshold
    /\ recovery_timeout \in 0..MaxTimeout
    /\ now = ClockStart
    /\ failures = DictSet(EmptyDict, EntryNode, 0)
    /\ \E t \in RecoveredStamps : last_failure = DictSet(EmptyDict, EntryNode, t)
    /\ op = NoOp
    /\ failed_flip = FALSE
    /\ ret = "None"
    /\ raised = FALSE
    /\ pre = [count |-> -1, timed_out |-> FALSE, at_limit |-> FALSE]
    /\ streak = [n \in Nodes |-> 0]
    /\ ConcIdle
    /\ NoMessage
    /\ NoRetry

\* A call on the breaker whose node has the count-0 entry.
pair_call ==
    /\ InStep
    /\ \/ \E t \in FailureType : record_failure(EntryNode, t)
       \/ record_success(EntryNode)
       \/ should_allow(EntryNode)
       \/ get_state(EntryNode)
       \/ get_failure_count(EntryNode)
       \/ reset(EntryNode)

\* The same call on the breaker whose node started without an entry.
pair_echo ==
    /\ ~InStep
    /\ \/ op.name = "record_failure" /\ record_failure(AbsentNode, op.ftype)
       \/ op.name = "record_success" /\ record_success(AbsentNode)
       \/ op.name = "should_allow" /\ should_allow(AbsentNode)
       \/ op.name = "get_state" /\ get_state(AbsentNode)
       \/ op.name = "get_failure_count" /\ get_failure_count(AbsentNode)
       \/ op.name = "reset" /\ reset(AbsentNode)

\* reset() on both breakers.
pair_reset_all == InStep /\ reset_all

\* The shared clock moves on between two calls.
pair_tick == InStep /\ Tick

PairNext == pair_call \/ pair_echo \/ pair_reset_all \/ pair_tick

SpecPair == PairInit /\ [][PairNext]_vars

\* ============================================ the breaker with fairness
\* The breaker as one node's callers see it (no per-node method reads or
\* writes another node's entries), with a clock that keeps advancing and
\* callers that keep asking should_allow. Failures are recorded up to the
\* clock value ClockStart + MaxClock; the clock runs on for the longest
\* recovery window after that, so the end of the modelled clock never cuts a
\* window short. Every returned value is kept as its text, str(value).
LiveNode == "n1"

LastTick == ClockStart + MaxClock + MaxTimeout + 1

\* str(b) of a bool
BoolStr(b) == IF b THEN "True" ELSE "False"

\* str(n) of a failure count
CountStr(n) == <<"0", "1", "2", "3", "4", "5", "6", "7", "8", "9">>[n + 1]

\* record_failure(LiveNode, failure_type), noted in failed_flip.
live_record_failure(failure_type) ==
    /\ now <= ClockStart + MaxClock
    /\ failure_type = "CONFIGURATION" \/ DictGet(failures, LiveNode, 0) < MaxCount
    /\ op' = [name |-> "record_failure", node |-> LiveNode, ftype |-> failure_type]
    /\ pre' = Snapshot(LiveNode)
    /\ failures' = RecordFailureCount(LiveNode, failure_type)
    /\ last_failure' = RecordFailureTime(LiveNode)
    /\ ret' = "None"
    /\ raised' = FALSE
    /\ streak' = [streak EXCEPT ![LiveNode] = StreakAfterFailure(LiveNode, failure_type)]
    /\ failed_flip' = ~failed_flip
    /\ UNCHANGED <<failure_threshold, recovery_timeout, now, concvars, clsvars,
                   retryvars>>

live_should_allow ==
    /\ Call("should_allow", LiveNode, "none")
    /\ failures' = ShouldAllow(LiveNode).failures
    /\ ret' = BoolStr(ShouldAllow(LiveNode).ret)
    /\ raised' = FALSE
    /\ UNCHANGED <<failure_threshold, recovery_timeout, last_failure, now, streak>>

live_get_failure_count ==
    /\ Call("get_failure_count", LiveNode, "none")
    /\ ret' = CountStr(GetFailureCount(LiveNode))
    /\ raised' = FALSE
    /\ UNCHANGED <<failure_threshold, recovery_timeout, failures, last_failure,
                   now, streak>>

\* The clock moves on between two calls.
live_tick ==
    /\ now < LastTick
    /\ now' = now + 1
    /\ UNCHANGED <<failure_threshold, recovery_timeout, failures, last_failure,
                   seqghosts, concvars, othervars>>

LiveNext ==
    \/ \E t \in FailureType : live_record_failure(t)
    \/ record_success(LiveNode)
    \/ live_should_allow
    \/ get_state(LiveNode)
    \/ live_get_failure_count
    \/ reset(LiveNode)
    \/ reset_all
    \/ live_tick

\* time.time() keeps advancing, and the node's callers keep calling
\* should_allow before they attempt a power operation.
LiveFairness ==
    /\ WF_vars(live_tick)
    /\ WF_vars(live_should_allow)

SpecLive == Init /\ [][LiveNext]_vars /\ LiveFairness

\* ======================================================== the claims
\* What a dict holds for a node: its value, or -1 when it has no entry.
Entry(d, node_id) == DictGet(d, node_id, -1)

\* The step is a call name(node_id, ...) of the breaker (a call leaves the
\* clock alone, and Tick leaves op alone).
CallStep(name, node_id) ==
    now' = now /\ op'.name = name /\ op'.node = node_id

\* C1: for any failure_threshold T >= 1 and a node starting with no entry,
\* after T non-CONFIGURATION record_failure calls in a row (no success or
\* reset in between), and while no more than recovery_timeout has elapsed
\* since the last of them, should_allow returns False and get_state OPEN.
C1_ThresholdTrips ==
    \A n \in Nodes :
        (/\ streak[n] = failure_threshold
         /\ HasKey(last_failure, n)
         /\ now - last_failure[n] <= recovery_timeout)
        => (ShouldAllow(n).ret = FALSE /\ GetState(n).ret = "OPEN")

C1_Witness ==
    \E n \in Nodes :
        /\ failure_threshold = MaxThreshold
        /\ streak[n] = failure_threshold
        /\ op = [name |-> "record_failure", node |-> n, ftype |-> "TRANSIENT"]
        /\ pre.count = failure_threshold - 1
        /\ now - last_failure[n] = recovery_timeout
        /\ recovery_timeout > 0

\* C2: one record_failure(n, CONFIGURATION) trips the breaker whatever the
\* count was: while the clock has not passed recovery_timeout since the call,
\* get_state(n) is OPEN and should_allow(n) is False.
C2_ConfigurationTrips ==
    (/\ op.name = "record_failure"
     /\ op.ftype = "CONFIGURATION"
     /\ now - Entry(last_failure, op.node) <= recovery_timeout)
    => (GetState(op.node).ret = "OPEN" /\ ShouldAllow(op.node).ret = FALSE)

\* The call found a count of 0 left by a timeout recovery.
C2_Witness ==
    /\ op.name = "record_failure"
    /\ op.ftype = "CONFIGURATION"
    /\ pre.count = 0
    /\ failure_threshold = MaxThreshold
    /\ now - Entry(last_failure, op.node) <= recovery_timeout
    /\ Entry(failures, op.node) = failure_threshold

\* C3: when node n is OPEN and the clock has passed recovery_timeout since its
\* last failure, should_allow(n) returns True and sets the count to 0:
\* get_failure_count(n) is 0 and a following get_state(n) is CLOSED.
C3_TimeoutRecovery ==
    (/\ op.name = "should_allow"
     /\ pre.count >= failure_threshold
     /\ pre.timed_out)
    => (/\ ret = TRUE
        /\ Entry(failures, op.node) = 0
        /\ GetFailureCount(op.node) = 0
        /\ GetState(op.node).ret = "CLOSED")

C3_Witness ==
    /\ op.name = "should_allow"
    /\ pre.count > failure_threshold
    /\ pre.timed_out
    /\ recovery_timeout > 0
    /\ ret = TRUE
    /\ GetFailureCount(op.node) = 0

\* C4: record_success(n) is a full reset from any state of n: n is left with
\* neither a count nor a timestamp, get_failure_count(n) is 0, should_allow(n)
\* is True and get_state(n) is CLOSED.
C4_SuccessResets ==
    op.name = "record_success"
    => (/\ ~HasKey(failures, op.node)
        /\ ~HasKey(last_failure, op.node)
        /\ GetFailureCount(op.node) = 0
        /\ ShouldAllow(op.node).ret = TRUE
        /\ GetState(op.node).ret = "CLOSED")

\* The success came while the node was OPEN and blocked.
C4_Witness ==
    /\ op.name = "record_success"
    /\ pre.count >= failure_threshold
    /\ ~pre.timed_out
    /\ ~HasKey(failures, op.node)
    /\ \E m \in Nodes : HasKey(failures, m)

\* C5: whenever 1 <= failure_count(n) <= failure_threshold - 1, get_state(n)
\* reports HALF_OPEN and should_allow(n) is True, whatever the clock says.
C5_HalfOpen ==
    \A n \in Nodes :
        (HasKey(failures, n) /\ 1 <= failures[n]
            /\ failures[n] <= failure_threshold - 1)
        => (GetState(n).ret = "HALF_OPEN" /\ ShouldAllow(n).ret = TRUE)

\* The first failure of a node, looked at after the recovery window.
C5_Witness ==
    \E n \in Nodes :
        /\ HasKey(failures, n)
        /\ failures[n] = 1
        /\ failure_threshold >= 2
        /\ streak[n] = 1
        /\ now - last_failure[n] > recovery_timeout

\* C6: the count of a node goes down in a step only when the step is
\* record_success(n), reset(n), reset() or a should_allow/get_state of n that
\* passes the recovery-timeout test; no record_failure lowers it.
C6_CountMonotonic ==
    [][\A n \in Nodes :
        DictGet(failures', n, 0) < DictGet(failures, n, 0)
        => \/ op'.name \in {"record_success", "reset"} /\ op'.node = n
           \/ op'.name = "reset_all"
           \/ /\ op'.name \in {"should_allow", "get_state"}
              /\ op'.node = n
              /\ pre'.count >= failure_threshold
              /\ pre'.timed_out]_vars

\* C7: two non-CONFIGURATION record_failure calls on the same node that run
\* concurrently, every dict read and write a step of its own, lose no failure:
\* once both have returned, the count of the node is its prior value plus 2.
C7_NoLostFailure ==
    (\A t \in Threads :
        /\ pc[t] = "done"
        /\ call[t].name = "record_failure"
        /\ call[t].ftype # "CONFIGURATION")
    => DictGet(failures, ConcNode, 0) = prior + Cardinality(Threads)

\* C8: reset(n) removes the count and the timestamp of n and leaves every
\* other node's entries as they were; reset() leaves no tracked node, so that
\* get_failure_count is 0 and get_state is CLOSED for every node.
C8_ResetFrame ==
    [][/\ \A n \in Nodes :
            CallStep("reset", n)
            => (/\ ~HasKey(failures', n)
                /\ ~HasKey(last_failure', n)
                /\ \A m \in Nodes \ {n} :
                    /\ Entry(failures', m) = Entry(failures, m)
                    /\ Entry(last_failure', m) = Entry(last_failure, m))
       /\ CallStep("reset_all", "none")
            => (/\ DOMAIN failures' = {}
                /\ DOMAIN last_failure' = {}
                /\ \A n \in Nodes :
                    /\ GetFailureCount(n)' = 0
                    /\ GetState(n).ret' = "CLOSED")]_vars

\* reset(n) of a tracked node while another node is tracked.
C8_Witness ==
    \E n \in Nodes, m \in Nodes :
        /\ m # n
        /\ op = [name |-> "reset", node |-> n, ftype |-> "none"]
        /\ pre.count >= failure_threshold
        /\ ~HasKey(failures, n)
        /\ ~HasKey(last_failure, n)
        /\ Entry(failures, m) >= 1
        /\ HasKey(last_failure, m)

\* C9: operations on a node with no entry raise nothing and behave as if its
\* count were 0: should_allow is True, get_state CLOSED, get_failure_count 0;
\* record_success and reset(n) leave the breaker as it was; a
\* non-CONFIGURATION record_failure yields count 1.
C9_AbsentNode ==
    /\ [](\A n \in Nodes :
            ~HasKey(failures, n)
            => (/\ ShouldAllow(n).ret = TRUE
                /\ GetState(n).ret = "CLOSED"
                /\ GetFailureCount(n) = 0))
    /\ [][\A n \in Nodes :
            (now' = now /\ op'.node = n /\ ~HasKey(failures, n))
            => (/\ ~raised'
                /\ op'.name \in {"record_success", "reset", "should_allow",
                                 "get_state", "get_failure_count"}
                    => (failures' = failures /\ last_failure' = last_failure)
                /\ op'.name = "should_allow" => ret' = TRUE
                /\ op'.name = "get_state" => ret' = "CLOSED"
                /\ op'.name = "get_failure_count" => ret' = 0
                /\ (op'.name = "record_failure" /\ op'.ftype # "CONFIGURATION")
                    => Entry(failures', n) = 1)]_vars

\* record_success of a node with no entry, another node being tracked.
C9_Witness ==
    /\ op.name = "record_success"
    /\ pre.count = -1
    /\ ~raised
    /\ ~HasKey(failures, op.node)
    /\ \E m \in Nodes : HasKey(failures, m)

\* pattern occurs in text, letter case set aside.
Occurs(pattern, text) ==
    \E i \in 0..(Len(text) - Len(pattern)) :
        \A j \in 1..Len(pattern) : LowerChar(text[i + j]) = LowerChar(pattern[j])

OccursAny(patterns, text) == \E p \in Range(patterns) : Occurs(p, text)

\* The first place (counted from 0) where one of patterns occurs in text.
FirstPlace(patterns, text) ==
    CHOOSE i \in 0..Len(text) :
        /\ \E p \in Range(patterns) :
            /\ i + Len(p) <= Len(text)
            /\ \A j \in 1..Len(p) : LowerChar(text[i + j]) = LowerChar(p[j])
        /\ \A k \in 0..(i - 1) : \A p \in Range(patterns) :
            ~(/\ k + Len(p) <= Len(text)
              /\ \A j \in 1..Len(p) : LowerChar(text[k + j]) = LowerChar(p[j]))

\* C10: classify is total and configuration patterns take precedence: the
\* result is CONFIGURATION if the message contains a configuration pattern in
\* any letter case (also when it contains a transient pattern too), otherwise
\* TRANSIENT if it contains a transient pattern, otherwise UNKNOWN; so it
\* depends only on which patterns occur, not on where or in which case.
C10_ClassifyPrecedence ==
    classified # "pending"
    => (/\ classified \in FailureType
        /\ classified =
            IF OccursAny(config_patterns, exception) THEN "CONFIGURATION"
            ELSE IF OccursAny(transient_patterns, exception) THEN "TRANSIENT"
            ELSE "UNKNOWN")

\* A message with a transient pattern first and a configuration pattern after
\* it, not all in lower case, was classified CONFIGURATION.
C10_Witness ==
    /\ classified = "CONFIGURATION"
    /\ OccursAny(transient_patterns, exception)
    /\ OccursAny(config_patterns, exception)
    /\ FirstPlace(transient_patterns, exception) < FirstPlace(config_patterns, exception)
    /\ StrLower(exception) # exception

C12_NoInternalFault ==
    \A t \in Threads :
        (/\ call[t].name \in {"should_allow", "get_state"}
         /\ \A u \in Threads \ {t} :
                call[u].name \in {"none", "record_success", "reset", "reset_all"})
        => cret[t] # "KeyError"

\* Both threads have returned.
BothDone == \A t \in Threads : pc[t] = "done"

\* C13: a record_failure(n, CONFIGURATION) and a record_success(n) that run
\* concurrently leave the node, once both have returned, either with no count
\* and no timestamp, or with count = failure_threshold and the timestamp of the
\* failure; never with a count at or above the threshold and no timestamp.
C13_Linearizable ==
    (/\ BothDone
     /\ \E t \in Threads :
            call[t] = [name |-> "record_failure", ftype |-> "CONFIGURATION"]
     /\ \E t \in Threads : call[t].name = "record_success")
    => \/ ~HasKey(failures, ConcNode) /\ ~HasKey(last_failure, ConcNode)
       \/ /\ Entry(failures, ConcNode) = failure_threshold
          /\ HasKey(last_failure, ConcNode)

\* C14: a failure recorded while a node is OPEN (count >= failure_threshold),
\* of any failure type and at any clock value, leaves get_state(n) = OPEN and
\* makes the count strictly greater than it was.
C14_OpenKeepsCounting ==
    [][\A n \in Nodes :
        (CallStep("record_failure", n) /\ Entry(failures, n) >= failure_threshold)
        => (/\ (GetState(n).ret)' = "OPEN"
            /\ Entry(failures', n) > Entry(failures, n))]_vars

\* C15: should_allow(n) changes stored state only when it recovers n: when it
\* returns False, or True because n has no entry or a count below the
\* threshold, every count and timestamp is as before; it resets the count
\* only when the count is at or above the threshold and strictly more than
\* recovery_timeout has elapsed, and with exactly recovery_timeout elapsed it
\* returns False.
C15_ShouldAllowFrame ==
    [][\A n \in Nodes :
        CallStep("should_allow", n)
        => LET elapsed == now - DictGet(last_failure, n, 0)
               blocked == Entry(failures, n) >= failure_threshold
           IN /\ last_failure' = last_failure
              /\ ~blocked => (ret' = TRUE /\ failures' = failures)
              /\ (blocked /\ elapsed <= recovery_timeout)
                    => (ret' = FALSE /\ failures' = failures)
              /\ (blocked /\ elapsed > recovery_timeout)
                    => (/\ ret' = TRUE
                        /\ Entry(failures', n) = 0
                        /\ \A m \in Nodes \ {n} :
                            Entry(failures', m) = Entry(failures, m))
              /\ failures' # failures
                    => (blocked /\ elapsed > recovery_timeout)]_vars

\* should_allow refused a blocked node with exactly recovery_timeout elapsed.
C15_Witness ==
    /\ op.name = "should_allow"
    /\ pre.count >= failure_threshold
    /\ pre.at_limit
    /\ recovery_timeout > 0
    /\ ret = FALSE
    /\ Entry(failures, op.node) = pre.count

\* C16: get_state(n) returns OPEN exactly when should_allow(n) would return
\* False in the same state, otherwise HALF_OPEN if the count after that check
\* is > 0 and CLOSED if it is 0, and it changes stored state exactly as
\* should_allow(n) does; get_failure_count changes nothing.
C16_GetStateDerived ==
    [][\A n \in Nodes :
        /\ CallStep("get_state", n)
            => (/\ ret' = "OPEN" <=> ShouldAllow(n).ret = FALSE
                /\ ret' = "HALF_OPEN"
                    <=> (ShouldAllow(n).ret /\ DictGet(ShouldAllow(n).failures, n, 0) > 0)
                /\ ret' = "CLOSED"
                    <=> (ShouldAllow(n).ret /\ DictGet(ShouldAllow(n).failures, n, 0) = 0)
                /\ failures' = ShouldAllow(n).failures
                /\ last_failure' = last_failure)
        /\ CallStep("get_failure_count", n)
            => (/\ ret' = DictGet(failures, n, 0)
                /\ failures' = failures
                /\ last_failure' = last_failure)]_vars

\* get_state on an OPEN node after the recovery window: count reset, CLOSED.
C16_Witness ==
    /\ op.name = "get_state"
    /\ pre.count >= failure_threshold
    /\ pre.timed_out
    /\ ret = "CLOSED"
    /\ Entry(failures, op.node) = 0

\* C17: a node with a stored count of 0 (and the old timestamp a timeout
\* recovery leaves) and a node with no entry give the same should_allow,
\* get_state and get_failure_count results after every identical sequence of
\* calls and clock advances: whenever both have taken the same calls the three
\* methods agree on them, and each call returns the same on both.
C17_AbsentIsZero ==
    /\ [](InStep =>
            /\ ShouldAllow(EntryNode).ret = ShouldAllow(AbsentNode).ret
            /\ GetState(EntryNode).ret = GetState(AbsentNode).ret
            /\ GetFailureCount(EntryNode) = GetFailureCount(AbsentNode))
    /\ [][(~InStep /\ op'.node = AbsentNode)
            => (ret' = ret /\ raised' = raised)]_vars

\* Both nodes answered get_state after the clock moved, one still holding its
\* count-0 entry and the other still without an entry.
C17_Witness ==
    /\ op = [name |-> "get_state", node |-> AbsentNode, ftype |-> "none"]
    /\ now > ClockStart
    /\ HasKey(failures, EntryNode) /\ failures[EntryNode] = 0
    /\ HasKey(last_failure, EntryNode)
    /\ ~HasKey(failures, AbsentNode)
    /\ ret = "CLOSED"

\* C18: a call on node a (record_failure, record_success, should_allow,
\* get_state, get_failure_count, reset(a)) never changes the count, the
\* timestamp or the reported state of another node b; only reset() changes
\* more than one node.
C18_NodeIsolation ==
    [][\A a \in Nodes :
        (now' = now /\ op'.node = a)
        => \A b \in Nodes \ {a} :
            /\ Entry(failures', b) = Entry(failures, b)
            /\ Entry(last_failure', b) = Entry(last_failure, b)
            /\ (GetState(b).ret)' = GetState(b).ret
            /\ (ShouldAllow(b).ret)' = ShouldAllow(b).ret]_vars

\* A node recovered by should_allow while the other node stays blocked.
C18_Witness ==
    \E a \in Nodes, b \in Nodes :
        /\ a # b
        /\ op = [name |-> "should_allow", node |-> a, ftype |-> "none"]
        /\ pre.count >= failure_threshold
        /\ pre.timed_out
        /\ Entry(failures, a) = 0
        /\ Entry(failures, b) >= failure_threshold
        /\ GetState(b).ret = "OPEN"

\* C19: every record_failure(n, t) sets last_failure(n) to the current clock
\* and nothing else moves it, so an OPEN node is refused until strictly more
\* than recovery_timeout has elapsed since its latest record_failure: a
\* failure recorded during (or after) the window starts the window again.
C19_WindowFromLastFailure ==
    /\ [](\A n \in Nodes :
            (/\ Entry(failures, n) >= failure_threshold
             /\ now - Entry(last_failure, n) <= recovery_timeout)
            => ShouldAllow(n).ret = FALSE)
    /\ [][\A n \in Nodes :
            /\ CallStep("record_failure", n) => Entry(last_failure', n) = now
            /\ (HasKey(last_failure', n)
                    /\ Entry(last_failure', n) # Entry(last_failure, n))
                => CallStep("record_failure", n)]_vars

\* A failure recorded on an OPEN node whose window had passed blocks it again.
C19_Witness ==
    /\ op.name = "record_failure"
    /\ pre.count >= failure_threshold
    /\ pre.timed_out
    /\ now - Entry(last_failure, op.node) <= recovery_timeout
    /\ ShouldAllow(op.node).ret = FALSE

\* should_allow refuses node_id.
Blocked(node_id) == ShouldAllow(node_id).ret = FALSE

\* should_allow has just admitted node_id, which is CLOSED with count 0.
Readmitted(node_id) ==
    IF op.name = "should_allow" /\ op.node = node_id
    THEN /\ ret = "True"
         /\ GetFailureCount(node_id) = 0
         /\ GetState(node_id).ret = "CLOSED"
    ELSE FALSE

\* C20: if node n is refused by should_allow (OPEN) and no record_failure(n)
\* occurs from then on, then, with the clock advancing and should_allow(n)
\* being called again and again, should_allow(n) eventually returns True and
\* n is CLOSED with count 0: no node is blocked forever without new failures.
C20_EventuallyReadmitted ==
    \A flipped \in BOOLEAN :
        (Blocked(LiveNode) /\ failed_flip = flipped)
            ~> (Readmitted(LiveNode) \/ failed_flip # flipped)

\* A node whose count was reset by should_allow after its window passed.
C20_Witness ==
    /\ Readmitted(LiveNode)
    /\ pre.count >= failure_threshold
    /\ pre.timed_out
    /\ HasKey(failures, LiveNode)

====
